---------------------------- MODULE Spec2Model ----------------------------
(***************************************************************************)
(* A model of the simple DICOM viewer: the viewing session of src/lib.rs   *)
(* (State, the file-drop handler, the window/level mouse tool) and the     *)
(* window/level and pixel transcoding pipeline of src/imaging.rs.          *)
(*                                                                         *)
(* Conventions.                                                            *)
(*  - Option<T> is a record with a field `some`; a Rust Vec or slice is a  *)
(*    sequence, so the element at Rust index i is seq[i + 1].              *)
(*  - A Result is a record with a field `res`: "ok", "err" (an Err value)  *)
(*    or "panic" (a failed assertion, unwrap or bounds check).             *)
(*  - f64 values are modelled by integers: every numeric attribute of the  *)
(*    catalogue is integer valued and the mouse tool adds integers, so all *)
(*    widths and centers stay integers.  The transfer functions are        *)
(*    computed in exact rational arithmetic and truncated as `as u8` does. *)
(*  - A DICOM data set is a record of the attributes the code reads; an    *)
(*    attribute is absent, numeric ("num") or non-numeric text ("str").    *)
(***************************************************************************)
EXTENDS Integers, Sequences, FiniteSets, TLC

(***************************************************************************)
(* Bounds of the model.                                                    *)
(***************************************************************************)
\* largest |movement_x| and |movement_y| of a mousemove event
MaxMove == 300
\* window/level adjustments between two loads
MaxAdjust == 1
\* files dropped in one session
MaxLoads == 2

(***************************************************************************)
(* Values                                                                  *)
(***************************************************************************)
Absent == [kind |-> "absent", n |-> 0, s |-> ""]
Num(n) == [kind |-> "num", n |-> n, s |-> ""]
Str(s) == [kind |-> "str", n |-> 0, s |-> s]

\* PixelData: native bytes (OB), native 16-bit words (OW), or encapsulated
NoPixels == [kind |-> "absent", data |-> <<>>]
Bytes(d) == [kind |-> "u8", data |-> d]
Words(d) == [kind |-> "u16", data |-> d]
Encapsulated == [kind |-> "seq", data |-> <<>>]

\* Option<WindowLevel>
NoWindowLevel == [some |-> FALSE, width |-> 0, center |-> 0]
WindowLevel(ww, wc) == [some |-> TRUE, width |-> ww, center |-> wc]

\* Option<Vec<u8>>
NoLut == [some |-> FALSE, v |-> <<>>]
SomeLut(v) == [some |-> TRUE, v |-> v]

\* the content of a canvas: nothing drawn yet, or an ImageData
NoImage == [w |-> 0, h |-> 0, data |-> <<>>]
ImageData(w, h, data) == [w |-> w, h |-> h, data |-> data]

Max(a, b) == IF a >= b THEN a ELSE b
Min(a, b) == IF a <= b THEN a ELSE b

Pow2(n) == 2 ^ n

\* `x as u8` of a float: truncation towards zero, saturating at 0 and 255.
\* The argument is the rational num/den with den > 0.
AsU8(num, den) ==
    IF num <= 0 THEN 0 ELSE Min(num \div den, 255)


(***************************************************************************)
(* State of the session (lib.rs, struct State and the closures' captures)  *)
(* and what the page shows.                                                *)
(***************************************************************************)
VARIABLES
    debug_assertions,  \* the build: TRUE when debug assertions are compiled in
    dicom_obj,         \* State.dicom_obj: [some, obj]
    lut,               \* State.lut
    window_level,      \* State.window_level
    y_samples,         \* State.y_samples, the RGBA output buffer
    canvas,            \* the inner canvas: the last image rendered
    out_canvas,        \* the visible canvas: "logo", "black" or "image"
    error_message,     \* inner HTML of the #error-message element
    is_dragging_mouse, \* the mouse tool's flag
    button_held,       \* a mousedown was heard and no mouseup or mouseleave since
                       \* (observation only)
    panicked,          \* a handler has panicked: the program is aborted
    last,              \* what the last drop or mousemove did (observation only)
    n_loads,           \* files dropped so far (bounds the model)
    n_adjust,          \* adjustments since the last load (bounds the model)
    probe              \* inputs and outputs of the pure-function checks

vars == <<debug_assertions, dicom_obj, lut, window_level, y_samples, canvas,
          out_canvas, error_message, is_dragging_mouse, button_held,
          panicked, last, n_loads, n_adjust, probe>>

session_vars == <<dicom_obj, lut, window_level, y_samples, canvas,
                  out_canvas, error_message, is_dragging_mouse, button_held,
                  panicked, last, n_loads, n_adjust>>

(***************************************************************************)
(* imaging.rs: window_level_of                                             *)
(***************************************************************************)
\* Mutation: a non-numeric attribute fails even when the
\* other attribute is absent.
window_level_of_strict(obj) ==
    LET ww == obj.WindowWidth
        wc == obj.WindowCenter
    IN  IF ww.kind = "str"
        THEN [res |-> "err", msg |-> "Could not read WindowWidth as a number",
              val |-> NoWindowLevel]
        ELSE IF wc.kind = "str"
        THEN [res |-> "err", msg |-> "Could not read WindowCenter as a number",
              val |-> NoWindowLevel]
        ELSE IF ww.kind = "num" /\ wc.kind = "num"
        THEN [res |-> "ok", msg |-> "", val |-> WindowLevel(ww.n, wc.n)]
        ELSE [res |-> "ok", msg |-> "", val |-> NoWindowLevel]

\* Result<Option<WindowLevel>>.  element_opt maps a missing element to None;
\* to_float64 fails on text that is not a number.
window_level_of(obj) ==
    LET ww == obj.WindowWidth
        wc == obj.WindowCenter
    IN  IF ww.kind # "absent" /\ wc.kind # "absent"
        THEN IF ww.kind # "num"
             THEN [res |-> "err", msg |-> "Could not read WindowWidth as a number",
                   val |-> NoWindowLevel]
             ELSE IF wc.kind # "num"
             THEN [res |-> "err", msg |-> "Could not read WindowCenter as a number",
                   val |-> NoWindowLevel]
             ELSE [res |-> "ok", msg |-> "", val |-> WindowLevel(ww.n, wc.n)]
        ELSE [res |-> "ok", msg |-> "", val |-> NoWindowLevel]

(***************************************************************************)
(* imaging.rs: the transfer functions.  Each opens with an assertion on    *)
(* the width alone and then computes its value, here the rational num/den  *)
(* with den > 0.                                                           *)
(***************************************************************************)
\* debug_assert!(ww >= 1.): checked in builds with debug assertions
window_level_linear_assert(ww) == debug_assertions => ww >= 1

window_level_linear(x, ww, wc) ==
    IF 2 * x <= 2 * wc - (ww - 1)
    THEN [num |-> 0, den |-> 1]
    ELSE IF 2 * x > 2 * wc - 1 + (ww - 1)
    THEN [num |-> 255, den |-> 1]
    \* ((x - (wc - 0.5)) / (ww - 1) + 0.5) * 255; here ww > 1
    ELSE [num |-> 255 * (2 * x - 2 * wc + ww), den |-> 2 * (ww - 1)]

\* debug_assert!(ww >= 0.): checked in builds with debug assertions
window_level_linear_exact_assert(ww) == debug_assertions => ww >= 0

window_level_linear_exact(value, ww, wc) ==
    IF 2 * value <= 2 * wc - ww
    THEN [num |-> 0, den |-> 1]
    ELSE IF 2 * value > 2 * wc + ww
    THEN [num |-> 255, den |-> 1]
    \* ((value - wc) / ww + 0.5) * 255; here ww > 0
    ELSE [num |-> 255 * (2 * (value - wc) + ww), den |-> 2 * ww]

\* assert!(ww >= 1.): checked in every build
window_level_sigmoid_assert(ww) == ww >= 1

\* 255 / (1 + exp(-4 (value - wc) / ww)).  TLA+ has no exponential: the
\* logistic curve 1 / (1 + exp(-2 v)) is replaced by the algebraic sigmoid
\* (1 + v / (1 + |v|)) / 2 with v = 2 (value - wc) / ww, which has the same
\* midpoint (127.5 at value = wc), slope there, monotonicity and range.
window_level_sigmoid(value, ww, wc) ==
    LET d == value - wc
        a == IF d >= 0 THEN d ELSE -d
    IN  [num |-> 255 * (ww + 2 * a + 2 * d), den |-> 2 * (ww + 2 * a)]

\* whether the assertion of the selected function holds
apply_window_level_assert(voi_lut_function, wl) ==
    CASE voi_lut_function = "LINEAR_EXACT" ->
            window_level_linear_exact_assert(wl.width)
      [] voi_lut_function = "SIGMOID" -> window_level_sigmoid_assert(wl.width)
      [] voi_lut_function = "LINEAR" -> window_level_linear_assert(wl.width)
      \* panic!("Unsupported VOI LUT function {}")
      [] OTHER -> FALSE

apply_window_level(x, voi_lut_function, wl) ==
    CASE voi_lut_function = "LINEAR_EXACT" ->
            window_level_linear_exact(x, wl.width, wl.center)
      [] voi_lut_function = "SIGMOID" ->
            window_level_sigmoid(x, wl.width, wl.center)
      [] voi_lut_function = "LINEAR" ->
            window_level_linear(x, wl.width, wl.center)
      \* not reached: the assertion above has stopped the call
      [] OTHER -> [num |-> 0, den |-> 1]

(***************************************************************************)
(* imaging.rs: the LUT builder and updater                                 *)
(***************************************************************************)
\* the call a LUT build or update makes to the transfer functions
NoLutCall == [called |-> FALSE, fn |-> "", width |-> 0]
LutCall(fn, ww) == [called |-> TRUE, fn |-> fn, width |-> ww]

\* Result<()> and the table after the call.  The checks of the attributes
\* all precede the loop.  The loop writes the entries in index order; the
\* assertion of the transfer function depends on the width alone, so it
\* fails, if at all, at the first entry, before any entry is written.
update_pixel_data_lut_with(table, obj, wl) ==
    LET slope == obj.RescaleSlope
        icpt == obj.RescaleIntercept
        voi == obj.VOILUTFunction
        rescale_slope == IF slope.kind = "absent" THEN 1 ELSE slope.n
        rescale_intercept == IF icpt.kind = "absent" THEN 0 ELSE icpt.n
        \* to_str renders a numeric value as text, which names no function
        voi_lut_function == CASE voi.kind = "absent" -> "LINEAR"
                              [] voi.kind = "str" -> voi.s
                              [] OTHER -> "?"
        fail(m) == [res |-> "err", msg |-> m, lut |-> table, call |-> NoLutCall]
    IN  IF debug_assertions /\ ~(Len(table) >= 256)
        THEN [res |-> "panic", msg |-> "assertion failed: lut.len() >= 256",
              lut |-> table, call |-> NoLutCall]
        ELSE IF slope.kind = "str" THEN fail("RescaleSlope is not a number")
        ELSE IF icpt.kind = "str" THEN fail("RescaleSlope is not a number")
        ELSE IF voi_lut_function \notin {"LINEAR", "LINEAR_EXACT", "SIGMOID"}
        THEN fail("Unsupported VOI LUT function")
        ELSE IF Len(table) > 0 /\ ~apply_window_level_assert(voi_lut_function, wl)
        THEN [res |-> "panic", msg |-> "assertion failed: ww >= 1.",
              lut |-> table, call |-> LutCall(voi_lut_function, wl.width)]
        ELSE [res |-> "ok", msg |-> "",
              lut |-> [i \in 1..Len(table) |->
                         LET x == (i - 1) * rescale_slope + rescale_intercept
                             y == apply_window_level(x, voi_lut_function, wl)
                         IN  AsU8(y.num, y.den)],
              call |-> IF Len(table) > 0
                       THEN LutCall(voi_lut_function, wl.width)
                       ELSE NoLutCall]

\* vec![0; 1 << bits_stored], then the update
simple_pixel_data_lut_with(obj, wl) ==
    LET bits_stored == obj.BitsStored
    IN  IF bits_stored.kind = "absent"
        THEN [res |-> "err", msg |-> "Could not fetch BitsStored", lut |-> <<>>,
              call |-> NoLutCall]
        ELSE IF bits_stored.kind # "num"
        THEN [res |-> "err", msg |-> "BitsStored is not a number", lut |-> <<>>,
              call |-> NoLutCall]
        ELSE update_pixel_data_lut_with([i \in 1..Pow2(bits_stored.n) |-> 0],
                                        obj, wl)

\* the LUT of the window level the object itself carries
simple_pixel_data_lut(obj) ==
    LET wl == window_level_of(obj)
    IN  IF wl.res = "err"
        THEN [res |-> "err", msg |-> wl.msg, lut |-> <<>>, call |-> NoLutCall]
        ELSE IF ~wl.val.some
        THEN [res |-> "err", msg |-> "The given image does not provide window levels :(",
              lut |-> <<>>, call |-> NoLutCall]
        ELSE simple_pixel_data_lut_with(obj, wl.val)

(***************************************************************************)
(* imaging.rs: the pixel transcoders                                       *)
(***************************************************************************)
\* PrimitiveValue::to_bytes: the bytes of the value (16-bit words in
\* little-endian order)
ToBytes(pd) ==
    IF pd.kind = "u16"
    THEN [j \in 1..(2 * Len(pd.data)) |->
            LET word == pd.data[(j + 1) \div 2]
            IN  IF j % 2 = 1 THEN word % 256 ELSE word \div 256]
    ELSE pd.data

\* uint16_slice, or else to_multi_int::<u16> (each byte becomes a word)
ToWords(pd) == pd.data

\* Mutation: the buffer keeps the length it came with.
Resize_never(v, new_len, value) == v

\* Vec::resize(new_len, value)
Resize(v, new_len, value) ==
    [j \in 1..new_len |-> IF j <= Len(v) THEN v[j] ELSE value]

\* Mutation: Monochrome1 is not inverted.
Invert_never(x, monochrome) == x

\* if monochrome == Monochrome::Monochrome1 { 0xFF - x } else { x }
Invert(x, monochrome) == IF monochrome = "Monochrome1" THEN 255 - x ELSE x

\* The loops of the 8-bit and the 16-bit path: pixel by pixel, the sample is
\* looked up in the LUT (a bounds-checked index, which panics when the
\* sample is not below lut.len()), inverted for Monochrome1 and written to
\* the pixel's four bytes.  The pixels before a panic stay written.
write_y_samples(y, samples, monochrome, table) ==
    LET bad == {p \in 1..Len(samples) : ~(samples[p] < Len(table))}
        stop == IF bad = {} THEN Len(samples) + 1
                ELSE CHOOSE p \in bad : \A q \in bad : p <= q
        shade(p) == Invert(table[samples[p] + 1], monochrome)
    IN  [res |-> IF bad = {} THEN "ok" ELSE "panic",
         msg |-> IF bad = {} THEN "" ELSE "index out of bounds",
         y |-> [j \in 1..Len(y) |->
                  LET p == (j - 1) \div 4 + 1
                  IN  IF p < stop
                      THEN IF (j - 1) % 4 = 3 THEN 255 ELSE shade(p)
                      ELSE y[j]]]

\* Result<()> and the output buffer after the call
convert_monochrome_to_y_samples(y, obj, monochrome, table) ==
    LET bits_allocated == obj.BitsAllocated
        pd == obj.PixelData
        fail(m) == [res |-> "err", msg |-> m, y |-> y]
        samples == IF bits_allocated.n = 8 THEN ToBytes(pd) ELSE ToWords(pd)
        sized == IF Len(samples) * 4 # Len(y)
                 THEN Resize(y, Len(samples) * 4, 255)
                 ELSE y
    IN  IF bits_allocated.kind = "absent"
        THEN fail("Could not fetch BitsAllocated")
        ELSE IF bits_allocated.kind # "num"
        THEN fail("BitsAllocated is not a number")
        ELSE IF bits_allocated.n \notin {8, 16}
        THEN fail("Unsupported BitsAllocated")
        ELSE IF pd.kind = "absent"
        THEN fail("Could not fetch PixelData")
        ELSE IF pd.kind = "seq"
        THEN fail("Encapsulated pixel data encoding is not supported at the moment, sorry. :(")
        ELSE write_y_samples(sized, samples, monochrome, table)

\* web_sys ImageData::new_with_u8_clamped_array_and_sh: the constructor
\* throws unless the data is a non-empty array of width * height pixels
ImageDataFits(len, width, height) ==
    len > 0 /\ width > 0 /\ len = 4 * width * height

\* Result<ImageData>
convert_rgb_to_imagedata(obj, width, height) ==
    LET spp == obj.SamplesPerPixel
        pd == obj.PixelData
        fail(m) == [res |-> "err", msg |-> m, img |-> NoImage]
        samples == ToBytes(pd)
        \* chunks(3), each chunk as [r, g, b], then [r, g, b, 0xFF]
        data == [j \in 1..(4 * (Len(samples) \div 3)) |->
                   IF (j - 1) % 4 = 3 THEN 255
                   ELSE samples[3 * ((j - 1) \div 4) + ((j - 1) % 4) + 1]]
    IN  IF spp.kind = "absent" THEN fail("Could not fetch SamplesPerPixel")
        ELSE IF spp.kind # "num" THEN fail("SamplesPerPixel is not an integer")
        ELSE IF spp.n # 3 THEN fail("Expected 3 samples per pixel")
        ELSE IF pd.kind = "absent" THEN fail("Could not fetch PixelData")
        ELSE IF pd.kind = "seq" THEN fail("Could not read the bytes of PixelData")
        \* the last chunk is shorter than 3: try_from(chunk).unwrap() panics
        ELSE IF Len(samples) % 3 # 0
        THEN [res |-> "panic", msg |-> "called Result::unwrap on an Err value",
              img |-> NoImage]
        ELSE IF ~ImageDataFits(Len(data), width, height)
        THEN fail("Js")
        ELSE [res |-> "ok", msg |-> "", img |-> ImageData(width, height, data)]

(***************************************************************************)
(* imaging.rs: obj_to_imagedata, the dispatcher on the photometric         *)
(* interpretation.  The result carries the output buffer and the LUT as    *)
(* the call leaves them, and the stage that ended it.                      *)
(***************************************************************************)
\* Mutation: an interpretation the match does not name is
\* read as MONOCHROME2.
IsMonochrome_lax(pi) == pi # "RGB"

IsMonochrome(pi) == pi \in {"MONOCHROME1", "MONOCHROME2"}

\* Mutation: the RGB arm builds the LUT as the monochrome
\* arms do.
NeedsLut_rgb(pi) == TRUE

\* the arms of the match that build the LUT when the session has none
NeedsLut(pi) == IsMonochrome(pi)

obj_to_imagedata(obj, y, table) ==
    LET pi == obj.PhotometricInterpretation
        columns == obj.Columns
        rows == obj.Rows
        \* to_str renders a numeric value as text
        photometric_interpretation == IF pi.kind = "str" THEN pi.s ELSE "?"
        end(r, st, m, y2, t2, c) ==
            [res |-> r, stage |-> st, msg |-> m, y |-> y2, lut |-> t2,
             img |-> NoImage, call |-> c]
        fail(m) == end("err", "attributes", m, y, table, NoLutCall)
        built == IF NeedsLut(photometric_interpretation) /\ ~table.some
                 THEN simple_pixel_data_lut(obj)
                 ELSE [res |-> "ok", msg |-> "", lut |-> table.v,
                       call |-> NoLutCall]
        table2 == IF built.res = "ok" /\ NeedsLut(photometric_interpretation)
                  THEN SomeLut(built.lut) ELSE table
        mono == convert_monochrome_to_y_samples(
                    y, obj,
                    IF photometric_interpretation = "MONOCHROME1"
                    THEN "Monochrome1" ELSE "Monochrome2",
                    table2.v)
        rgb == convert_rgb_to_imagedata(obj, columns.n, rows.n)
    IN  IF pi.kind = "absent"
        THEN fail("Could not fetch PhotometricInterpretation")
        ELSE IF columns.kind = "absent" THEN fail("Could not fetch Columns")
        ELSE IF columns.kind # "num" THEN fail("Columns is not an integer")
        ELSE IF rows.kind = "absent" THEN fail("Could not fetch Rows")
        ELSE IF rows.kind # "num" THEN fail("Rows is not an integer")
        ELSE IF built.res # "ok"
        THEN end(built.res, "lut", built.msg, y, table, built.call)
        ELSE IF IsMonochrome(photometric_interpretation)
        THEN IF mono.res # "ok"
             THEN end(mono.res, "transcode", mono.msg, mono.y, table2, built.call)
             ELSE IF ~ImageDataFits(Len(mono.y), columns.n, rows.n)
             THEN end("err", "imagedata", "Js", mono.y, table2, built.call)
             ELSE [res |-> "ok", stage |-> "done", msg |-> "", y |-> mono.y,
                   lut |-> table2,
                   img |-> ImageData(columns.n, rows.n, mono.y),
                   call |-> built.call]
        ELSE IF photometric_interpretation = "RGB"
        THEN [res |-> rgb.res, stage |-> IF rgb.res = "ok" THEN "done" ELSE "rgb",
              msg |-> rgb.msg, y |-> y, lut |-> table2, img |-> rgb.img,
              call |-> built.call]
        ELSE end("err", "photometric",
                 "Unsupported photometric interpretation", y, table2, built.call)

(***************************************************************************)
(* The files a user may drop: bytes that do not parse, or a data set of    *)
(* the catalogue (a base object and variations of it).                     *)
(***************************************************************************)
Base ==
    [WindowWidth |-> Num(256), WindowCenter |-> Num(128),
     PhotometricInterpretation |-> Str("MONOCHROME2"),
     Columns |-> Num(2), Rows |-> Num(1),
     BitsStored |-> Num(8), BitsAllocated |-> Num(16),
     RescaleSlope |-> Absent, RescaleIntercept |-> Absent,
     VOILUTFunction |-> Absent, SamplesPerPixel |-> Num(1),
     PixelData |-> Words(<<17, 200>>)]

Rgb ==
    [Base EXCEPT !.PhotometricInterpretation = Str("RGB"),
                 !.BitsAllocated = Num(8), !.SamplesPerPixel = Num(3),
                 !.PixelData = Bytes(<<10, 20, 30, 40, 50, 60>>)]

Monochromes ==
    {Base,
     [Base EXCEPT !.PhotometricInterpretation = Str("MONOCHROME1"),
                  !.BitsAllocated = Num(8), !.PixelData = Bytes(<<17, 200>>)],
     \* the samples of the spec's end-to-end example: 300 is no index of the LUT
     [Base EXCEPT !.Columns = Num(2), !.Rows = Num(2),
                  !.PixelData = Words(<<0, 128, 255, 300>>)],
     \* fewer stored bits than a byte holds
     [Base EXCEPT !.BitsStored = Num(4), !.BitsAllocated = Num(8),
                  !.PixelData = Bytes(<<3, 200>>)],
     \* no window level, and one that is not a number
     [Base EXCEPT !.WindowWidth = Absent, !.WindowCenter = Absent],
     [Base EXCEPT !.WindowWidth = Str("wide")],
     \* a width below 1
     [Base EXCEPT !.WindowWidth = Num(0)],
     [Base EXCEPT !.WindowWidth = Num(0), !.VOILUTFunction = Str("SIGMOID")],
     \* the transfer functions and the rescale
     [Base EXCEPT !.VOILUTFunction = Str("SIGMOID"),
                  !.RescaleSlope = Num(2), !.RescaleIntercept = Num(-100)],
     [Base EXCEPT !.VOILUTFunction = Str("LINEAR_EXACT")],
     [Base EXCEPT !.VOILUTFunction = Str("LOGARITHMIC")],
     \* the pixel data
     [Base EXCEPT !.BitsAllocated = Num(12)],
     \* more pixels declared than the pixel data holds
     [Base EXCEPT !.Columns = Num(3)]}

Colours == {Rgb}

Others ==
    {[Base EXCEPT !.PhotometricInterpretation = Str("YBR_FULL")]}

Catalogue == Monochromes \cup Colours \cup Others

\* Option<DefaultDicomObject>
NoObject == [some |-> FALSE, obj |-> [Base EXCEPT !.PixelData = NoPixels]]
SomeObject(obj) == [some |-> TRUE, obj |-> obj]

\* the <<movement_x, movement_y>> of a mousemove event
Movements == {<<-MaxMove, 0>>, <<1, 1>>}

(***************************************************************************)
(* lib.rs: the session                                                     *)
(***************************************************************************)
Logo == [kind |-> "logo", img |-> NoImage]
Black == [kind |-> "black", img |-> NoImage]
Shown(img) == [kind |-> "image", img |-> img]

NoWindowLevelOf == [res |-> "none", msg |-> "", val |-> NoWindowLevel]

\* what the handler of a drop or of a mousemove did: the event, how it ended, the stage of the pipeline
\* that ended it, whether set_error_messsage was called, the call the LUT
\* builder made to the transfer functions, whether render_obj_to_canvas
\* reached the pipeline, and what window_level_of returned to the loader
Did(ev, r, st, shown, c, rd, wl) ==
    [event |-> ev, result |-> r, stage |-> st, surfaced |-> shown,
     call |-> c, rendered |-> rd, wl_of |-> wl]

NoProbe == [kind |-> "none"]

\* main_js: the state the session is created with
SessionInit ==
    /\ dicom_obj = NoObject
    /\ lut = NoLut
    /\ window_level = NoWindowLevel
    /\ y_samples = <<>>
    /\ canvas = NoImage
    /\ out_canvas = Logo
    /\ error_message = ""
    /\ is_dragging_mouse = FALSE
    /\ button_held = FALSE
    /\ panicked = FALSE
    /\ last = Did("none", "none", "none", FALSE, NoLutCall, FALSE, NoWindowLevelOf)
    /\ n_loads = 0
    /\ n_adjust = 0

Init ==
    /\ debug_assertions \in BOOLEAN
    /\ SessionInit
    /\ probe = NoProbe

\* render_obj_to_canvas, for a session that holds `obj`: the pipeline runs
\* on the session's buffer and LUT; an image is put on the inner canvas and
\* drawn, scaled, on the visible one; an error is shown as a message.
render_obj_to_canvas(ev, obj, table, wl, updated) ==
    \E r \in {obj_to_imagedata(obj, y_samples, table)} :
        /\ y_samples' = r.y
        /\ lut' = r.lut
        /\ canvas' = IF r.res = "ok" THEN r.img ELSE canvas
        /\ out_canvas' = IF r.res = "ok" THEN Shown(r.img)
                         ELSE IF ev = "load" THEN Black ELSE out_canvas
        /\ error_message' = IF r.res = "err"
                            THEN "Failed to render DICOM object: " \o r.msg
                            ELSE error_message
        /\ panicked' = (r.res = "panic")
        /\ last' = Did(ev, r.res, r.stage, r.res = "err",
                       IF updated.called THEN updated ELSE r.call, TRUE, wl)

\* set_drop_zone: state.lut = None
LutAfterLoad(table) == NoLut

\* The file reader's callback of set_drop_zone.  Bytes that do not parse
\* show a message and leave the session alone; a parsed object replaces the
\* session's object and window level, drops the LUT, blacks the visible
\* canvas and is rendered.
Load(file) ==
    /\ ~panicked
    /\ n_loads < MaxLoads
    /\ n_loads' = n_loads + 1
    /\ UNCHANGED <<debug_assertions, is_dragging_mouse, button_held, probe>>
    /\ IF ~file.some
       THEN /\ error_message' = "Failed to parse DICOM object: Failed to read DICOM data"
            /\ last' = Did("load", "err", "parse", TRUE, NoLutCall, FALSE,
                           NoWindowLevelOf)
            /\ UNCHANGED <<dicom_obj, lut, window_level, y_samples, canvas,
                           out_canvas, panicked, n_adjust>>
       ELSE \E wl \in {window_level_of(file.obj)} :
                /\ window_level' = IF wl.res = "ok" THEN wl.val ELSE NoWindowLevel
                /\ dicom_obj' = file
                /\ n_adjust' = 0
                /\ render_obj_to_canvas("load", file.obj, LutAfterLoad(lut), wl,
                                        NoLutCall)

\* change_window_level: (window_level.width + rel_ww).max(1.)
NewWidth(ww, rel_ww) == Max(ww + rel_ww, 1)

\* Mutation: the adjustment leaves the LUT as it is.
UpdatedLut_stale(table, obj, wl) ==
    [res |-> "ok", msg |-> "", lut |-> table, call |-> NoLutCall]

\* change_window_level: the update of a LUT the session holds
UpdatedLut(table, obj, wl) == update_pixel_data_lut_with(table, obj, wl)

\* Mutation: the adjustment asks for an object only.
Adjustable_without_level == dicom_obj.some

\* change_window_level: neither of the two early returns is taken (the
\* session holds an object and a window level)
Adjustable == dicom_obj.some /\ window_level.some

\* change_window_level.  Without an object or without a window level the
\* adjustment is ignored; otherwise the window level is replaced, the LUT
\* (if the session holds one) is updated in place and the object is
\* rendered.  A failed update is logged to the console only.
change_window_level(rel_ww, rel_wc) ==
    IF ~Adjustable
    THEN /\ last' = Did("mousemove", "ignored", "none", FALSE, NoLutCall, FALSE,
                        NoWindowLevelOf)
         /\ UNCHANGED <<dicom_obj, lut, window_level, y_samples, canvas,
                        out_canvas, error_message, panicked, n_adjust>>
    ELSE LET obj == dicom_obj.obj
             wl == WindowLevel(NewWidth(window_level.width, rel_ww),
                               window_level.center + rel_wc)
         IN  \E up \in {IF lut.some THEN UpdatedLut(lut.v, obj, wl)
                        ELSE [res |-> "ok", msg |-> "", lut |-> lut.v,
                              call |-> NoLutCall]} :
             /\ n_adjust < MaxAdjust
             /\ n_adjust' = n_adjust + 1
             /\ window_level' = wl
             /\ UNCHANGED dicom_obj
             /\ IF up.res = "ok"
                THEN render_obj_to_canvas("mousemove", obj,
                                          [lut EXCEPT !.v = up.lut],
                                          NoWindowLevelOf, up.call)
                ELSE /\ lut' = [lut EXCEPT !.v = up.lut]
                     /\ panicked' = (up.res = "panic")
                     /\ last' = Did("mousemove", up.res, "update", FALSE, up.call,
                                    FALSE, NoWindowLevelOf)
                     /\ UNCHANGED <<y_samples, canvas, out_canvas, error_message>>

\* set_window_level_tool: the four listeners
MouseDown ==
    /\ ~panicked
    /\ is_dragging_mouse' = TRUE
    /\ button_held' = TRUE
    /\ UNCHANGED <<debug_assertions, dicom_obj, lut, window_level, y_samples,
                   canvas, out_canvas, error_message, panicked, last, n_loads,
                   n_adjust, probe>>

MouseMove(movement_x, movement_y) ==
    /\ ~panicked
    /\ UNCHANGED <<debug_assertions, is_dragging_mouse, button_held, n_loads,
                   probe>>
    /\ IF is_dragging_mouse
       THEN change_window_level(movement_x, movement_y * 2)
       ELSE /\ last' = Did("mousemove", "ignored", "none", FALSE, NoLutCall,
                           FALSE, NoWindowLevelOf)
            /\ UNCHANGED <<dicom_obj, lut, window_level, y_samples, canvas,
                           out_canvas, error_message, panicked, n_adjust>>

MouseUp ==
    /\ ~panicked
    /\ is_dragging_mouse' = FALSE
    /\ button_held' = FALSE
    /\ UNCHANGED <<debug_assertions, dicom_obj, lut, window_level, y_samples,
                   canvas, out_canvas, error_message, panicked, last, n_loads,
                   n_adjust, probe>>

\* Mutation: no listener is registered for mouseleave.
MouseLeave_unheard ==
    /\ ~panicked
    /\ button_held' = FALSE
    /\ UNCHANGED <<debug_assertions, dicom_obj, lut, window_level, y_samples,
                   canvas, out_canvas, error_message, is_dragging_mouse,
                   panicked, last, n_loads, n_adjust, probe>>

\* mouseleave runs the mouseup callback
MouseLeave ==
    /\ ~panicked
    /\ is_dragging_mouse' = FALSE
    /\ button_held' = FALSE
    /\ UNCHANGED <<debug_assertions, dicom_obj, lut, window_level, y_samples,
                   canvas, out_canvas, error_message, panicked, last, n_loads,
                   n_adjust, probe>>

Files == {NoObject} \cup {SomeObject(o) : o \in Catalogue}

Next ==
    \/ \E file \in Files : Load(file)
    \/ MouseDown
    \/ \E m \in Movements : MouseMove(m[1], m[2])
    \/ MouseUp
    \/ MouseLeave

Spec == Init /\ [][Next]_vars

(***************************************************************************)
(* Properties of the session                                               *)
(***************************************************************************)
\* the step is the handler of a drop
IsLoadStep == n_loads' = n_loads + 1

\* the step is a mousemove that changed the window level
IsAdjustStep == n_adjust' = n_adjust + 1

\* the table a complete build makes of an object and a window level
TableOf(obj, wl) == simple_pixel_data_lut_with(obj, wl)

\* C1: in every reachable state of the session, a LUT that is present is the
\* complete table of the loaded object's attributes and the session's
\* current window level: it has 2^bits_stored entries and each is the entry
\* a fresh build computes.
C1_LutIsCurrent ==
    lut.some =>
        /\ dicom_obj.some
        /\ window_level.some
        /\ TableOf(dicom_obj.obj, window_level).res = "ok"
        /\ lut.v = TableOf(dicom_obj.obj, window_level).lut

\* a second object is loaded and its LUT has followed an adjustment
C1_Witness ==
    /\ lut.some
    /\ n_loads = 2
    /\ n_adjust = 1
    /\ last.event = "mousemove"
    /\ last.result = "ok"
    /\ window_level # window_level_of(dicom_obj.obj).val

\* C3 (as claimed): whenever a load or a render fails with an error, a
\* message is shown and the session's object, window level, LUT, output
\* buffer and canvases are what they were before the event.
C3_FailureKeepsPriorState ==
    [][((IsLoadStep \/ IsAdjustStep) /\ last'.result = "err") =>
          /\ last'.surfaced
          /\ dicom_obj' = dicom_obj
          /\ window_level' = window_level
          /\ lut' = lut
          /\ y_samples' = y_samples
          /\ canvas' = canvas
          /\ out_canvas' = out_canvas]_vars

\* C4 (as claimed): a LUT build or update or a monochrome transcode that
\* fails (an error or a panic) leaves the output buffer as it was before the
\* call, and leaves no LUT other than a complete table.
C4_FailureLeavesNoPartialUpdate ==
    [][((IsLoadStep \/ IsAdjustStep)
          /\ last'.result \in {"err", "panic"}
          /\ last'.stage \in {"lut", "update", "transcode"}) =>
          /\ y_samples' = y_samples
          /\ lut'.some => lut'.v = TableOf(dicom_obj'.obj, window_level').lut]_vars

\* the samples the monochrome transcoder reads from the object
SamplesOf(obj) ==
    IF obj.BitsAllocated.n = 8 THEN ToBytes(obj.PixelData)
    ELSE ToWords(obj.PixelData)

\* the last render ran the loop of the monochrome transcoder over a sample
\* that is no index of the LUT
TranscodedBadSample ==
    /\ last.rendered
    /\ dicom_obj.some
    /\ lut.some
    /\ IsMonochrome(dicom_obj.obj.PhotometricInterpretation.s)
    /\ dicom_obj.obj.BitsAllocated.n \in {8, 16}
    /\ dicom_obj.obj.PixelData.kind \in {"u8", "u16"}
    /\ \E p \in 1..Len(SamplesOf(dicom_obj.obj)) :
          SamplesOf(dicom_obj.obj)[p] >= Len(lut.v)

\* C5 (as claimed): a sample that is no index of the LUT makes the transcode
\* return an error; the program is not aborted.
C5_BadSampleIsAnError ==
    TranscodedBadSample => (last.result = "err" /\ ~panicked)

\* C6 (as claimed): the width every LUT build or update passes to the Linear
\* or the Sigmoid transfer function is at least 1, so that their assertions
\* hold.
C6_WidthAtLeastOne ==
    (last.call.called /\ last.call.fn \in {"LINEAR", "SIGMOID"}) =>
        /\ last.call.width >= 1
        /\ apply_window_level_assert(last.call.fn, WindowLevel(last.call.width, 0))

\* the photometric interpretation is none of the three the dispatcher names
Unsupported(obj) ==
    /\ obj.PhotometricInterpretation.kind = "str"
    /\ obj.PhotometricInterpretation.s \notin {"MONOCHROME1", "MONOCHROME2", "RGB"}

\* C8: rendering an object of an unsupported photometric interpretation, on
\* a load or on an adjustment, fails with an error that is shown, and the
\* output buffer keeps its length and contents.
C8_UnsupportedWritesNothing ==
    [][((IsLoadStep \/ IsAdjustStep) /\ last'.rendered
          /\ Unsupported(dicom_obj'.obj)) =>
          /\ last'.result = "err"
          /\ last'.surfaced
          /\ y_samples' = y_samples]_vars

\* an unsupported object was rendered over the buffer of an earlier image
C8_Witness ==
    /\ dicom_obj.some
    /\ Unsupported(dicom_obj.obj)
    /\ last.rendered
    /\ last.stage = "photometric"
    /\ Len(y_samples) > 0

\* the object is loaded and its interpretation is RGB
IsRgb(o) == o.some /\ o.obj.PhotometricInterpretation.s = "RGB"

\* C9: while an RGB object is loaded the session holds no LUT, and an
\* adjustment of the window level leaves the rendered image, on both
\* canvases, as it was.
C9_RgbBypassesLut ==
    [][IsRgb(dicom_obj') =>
          /\ ~lut'.some
          /\ IsAdjustStep => (canvas' = canvas /\ out_canvas' = out_canvas)]_vars

\* an RGB object is shown, rendered again after its window level changed
C9_Witness ==
    /\ IsRgb(dicom_obj)
    /\ last.event = "mousemove"
    /\ last.result = "ok"
    /\ window_level # window_level_of(dicom_obj.obj).val
    /\ out_canvas.kind = "image"
    /\ canvas.data = <<10, 20, 30, 255, 40, 50, 60, 255>>

(***************************************************************************)
(* The LUT builder on its own: simple_pixel_data_lut_with applied to       *)
(* objects of every bits_stored of 1..16 (spec.md, section 3), each        *)
(* supported transfer function and window levels of width 1 and above.     *)
(***************************************************************************)
BitsStoredRange == 1..16

LutInputs ==
    {[kind |-> "lut_input",
      obj |-> [Base EXCEPT !.BitsStored = Num(b), !.VOILUTFunction = f],
      wl |-> wl] :
        b \in BitsStoredRange,
        f \in {Absent, Str("LINEAR_EXACT"), Str("SIGMOID")},
        wl \in {WindowLevel(1, 0), WindowLevel(256, 128)}}

InitLut ==
    /\ debug_assertions \in BOOLEAN
    /\ SessionInit
    /\ probe \in LutInputs

BuildLut ==
    /\ probe.kind = "lut_input"
    /\ probe' = [kind |-> "lut_output", obj |-> probe.obj, wl |-> probe.wl,
                 out |-> simple_pixel_data_lut_with(probe.obj, probe.wl)]
    /\ UNCHANGED <<debug_assertions, session_vars>>

SpecLut == InitLut /\ [][BuildLut]_vars

\* C2 (as claimed): for every bits_stored of 1..16 the build succeeds and
\* returns a table of exactly 2^bits_stored entries, each in 0..255.
C2_BuildSucceeds ==
    probe.kind = "lut_output" =>
        /\ probe.out.res = "ok"
        /\ Len(probe.out.lut) = Pow2(probe.obj.BitsStored.n)
        /\ \A i \in 1..Len(probe.out.lut) :
               probe.out.lut[i] >= 0 /\ probe.out.lut[i] <= 255

(***************************************************************************)
(* The window level extractor on its own: window_level_of applied to       *)
(* every combination of an absent, a numeric and a non-numeric width and   *)
(* center.                                                                 *)
(***************************************************************************)
WidthAttrs ==
    {Absent, Str("wide"), Str(""), Num(-2), Num(0), Num(1), Num(256), Num(4096)}

CenterAttrs ==
    {Absent, Str("mid"), Str(""), Num(-1024), Num(0), Num(40), Num(128), Num(2048)}

WindowLevelInputs ==
    {[kind |-> "wl_input",
      obj |-> [Base EXCEPT !.WindowWidth = ww, !.WindowCenter = wc]] :
        ww \in WidthAttrs, wc \in CenterAttrs}

InitWindowLevel ==
    /\ debug_assertions = FALSE
    /\ SessionInit
    /\ probe \in WindowLevelInputs

ExtractWindowLevel ==
    /\ probe.kind = "wl_input"
    /\ probe' = [kind |-> "wl_output", obj |-> probe.obj,
                 out |-> window_level_of(probe.obj)]
    /\ UNCHANGED <<debug_assertions, session_vars>>

SpecWindowLevel == InitWindowLevel /\ [][ExtractWindowLevel]_vars

\* the three answers of the extractor
GavePair(out, ww, wc) == out.res = "ok" /\ out.val = WindowLevel(ww.n, wc.n)
GaveNone(out) == out.res = "ok" /\ ~out.val.some
GaveError(out) == out.res = "err"

\* C7 (as claimed): the pair when both attributes are numeric, no windowing
\* when either is absent, and an error whenever an attribute is present but
\* not numeric.
C7_NonNumericAlwaysFails ==
    probe.kind = "wl_output" =>
        LET ww == probe.obj.WindowWidth
            wc == probe.obj.WindowCenter
        IN  /\ (ww.kind = "num" /\ wc.kind = "num") => GavePair(probe.out, ww, wc)
            /\ (ww.kind = "absent" \/ wc.kind = "absent") => GaveNone(probe.out)
            /\ (ww.kind = "str" \/ wc.kind = "str") => GaveError(probe.out)

\* C7 (as amended): the pair when both attributes are numeric, no windowing
\* when either is absent (whatever the other holds), and an error when both
\* are present and one of them is not numeric.
C7_WindowLevelOf ==
    probe.kind = "wl_output" =>
        LET ww == probe.obj.WindowWidth
            wc == probe.obj.WindowCenter
        IN  /\ (ww.kind = "num" /\ wc.kind = "num") => GavePair(probe.out, ww, wc)
            /\ (ww.kind = "absent" \/ wc.kind = "absent") => GaveNone(probe.out)
            /\ (ww.kind # "absent" /\ wc.kind # "absent"
                  /\ (ww.kind = "str" \/ wc.kind = "str")) => GaveError(probe.out)

\* the extractor has answered for a non-numeric width beside an absent center
C7_Witness ==
    /\ probe.kind = "wl_output"
    /\ probe.obj.WindowWidth.kind = "str"
    /\ probe.obj.WindowCenter.kind = "absent"
    /\ GaveNone(probe.out)

(***************************************************************************)
(* The monochrome transcoder on its own: convert_monochrome_to_y_samples   *)
(* applied under Monochrome1 and under Monochrome2 to the same object, the *)
(* same LUT and the same output buffer, in the 8-bit and the 16-bit path.  *)
(***************************************************************************)
TranscodeTables ==
    {<<0, 255>>, <<255, 128, 0, 7>>, <<10, 20, 30, 40, 50, 60, 70, 80>>}

TranscodeData ==
    {<<>>, <<0>>, <<1, 0>>, <<3, 1, 2>>, <<1, 9, 0>>, <<0, 1, 2, 3>>}

TranscodeBuffers ==
    {<<>>, <<1, 2, 3, 4>>, <<7, 7, 7, 7, 7, 7, 7, 7, 7, 7, 7, 7>>}

TranscodeInputs ==
    {[kind |-> "y_input",
      obj |-> [Base EXCEPT !.BitsAllocated = Num(b), !.PixelData = pd],
      table |-> t, y |-> y] :
        b \in {8, 16},
        pd \in {Bytes(d) : d \in TranscodeData} \cup {Words(d) : d \in TranscodeData},
        t \in TranscodeTables,
        y \in TranscodeBuffers}

InitTranscode ==
    /\ debug_assertions = FALSE
    /\ SessionInit
    /\ probe \in TranscodeInputs

Transcode ==
    /\ probe.kind = "y_input"
    /\ probe' = [kind |-> "y_output", obj |-> probe.obj,
                 table |-> probe.table, y |-> probe.y,
                 m1 |-> convert_monochrome_to_y_samples(
                            probe.y, probe.obj, "Monochrome1", probe.table),
                 m2 |-> convert_monochrome_to_y_samples(
                            probe.y, probe.obj, "Monochrome2", probe.table)]
    /\ UNCHANGED <<debug_assertions, session_vars>>

SpecTranscode == InitTranscode /\ [][Transcode]_vars

\* the pixels the transcoder has written: all of them, or those before the
\* first sample that is not an index of the LUT
WrittenPixels(obj, table) ==
    LET samples == SamplesOf(obj)
    IN  {p \in 1..Len(samples) : \A q \in 1..p : samples[q] < Len(table)}

\* C10: for the same LUT and the same raw samples, in the 8-bit and in the
\* 16-bit path, each colour byte written under Monochrome1 is 255 minus the
\* byte written under Monochrome2 for the same pixel, and the alpha byte is
\* 255 under both.
C10_Monochrome1IsInverse ==
    probe.kind = "y_output" =>
        /\ probe.m1.res = probe.m2.res
        /\ Len(probe.m1.y) = Len(probe.m2.y)
        /\ \A p \in WrittenPixels(probe.obj, probe.table) :
              /\ \A c \in 1..3 :
                    probe.m1.y[4 * (p - 1) + c] = 255 - probe.m2.y[4 * (p - 1) + c]
              /\ probe.m1.y[4 * p] = 255
              /\ probe.m2.y[4 * p] = 255

\* both transcodes of a three-pixel, 16-bit image have succeeded
C10_Witness ==
    /\ probe.kind = "y_output"
    /\ probe.obj.BitsAllocated.n = 16
    /\ probe.m1.res = "ok"
    /\ WrittenPixels(probe.obj, probe.table) = 1..3
    /\ probe.m1.y # probe.m2.y

\* the buffer after a successful transcode: 4 bytes for each raw sample,
\* each pixel's alpha byte 255, and the length of the buffer before the call
\* kept when it was 4 bytes for each raw sample already
TranscodedBuffer(before, after, obj) ==
    LET n == Len(SamplesOf(obj))
    IN  /\ Len(after) = 4 * n
        /\ \A p \in 1..n : after[4 * p] = 255
        /\ (Len(after) # Len(before)) => (Len(before) # 4 * n)
        /\ (Len(before) = 4 * n) => (Len(after) = Len(before))

\* C11: after every successful monochrome transcode, whatever the length and
\* the contents of the output buffer before the call, the buffer has 4 bytes
\* for each raw sample, every pixel's alpha byte is 255, and the length of
\* the buffer has changed only if it was not 4 bytes for each raw sample.
C11_BufferAfterTranscode ==
    probe.kind = "y_output" =>
        /\ (probe.m1.res = "ok") => TranscodedBuffer(probe.y, probe.m1.y, probe.obj)
        /\ (probe.m2.res = "ok") => TranscodedBuffer(probe.y, probe.m2.y, probe.obj)

\* an 8-bit image of three pixels has been transcoded into a buffer that
\* held one pixel, none of whose bytes was 255
C11_Witness ==
    /\ probe.kind = "y_output"
    /\ probe.obj.BitsAllocated.n = 8
    /\ probe.m2.res = "ok"
    /\ Len(SamplesOf(probe.obj)) = 3
    /\ probe.y = <<1, 2, 3, 4>>
    /\ Len(probe.m2.y) = 12

\* the step changes what the session holds or shows
SessionChanges ==
    \/ dicom_obj' # dicom_obj
    \/ window_level' # window_level
    \/ lut' # lut
    \/ y_samples' # y_samples
    \/ canvas' # canvas
    \/ out_canvas' # out_canvas
    \/ error_message' # error_message
    \/ panicked' # panicked

\* the step is a mousemove: it is no drop and it leaves the button as it is
IsMouseMoveStep ==
    /\ ~IsLoadStep
    /\ button_held' = button_held
    /\ is_dragging_mouse' = is_dragging_mouse

\* C12: a mousemove changes the session's window level, LUT or rendered
\* image only while a drag is in progress, that is after a mousedown with no
\* mouseup or mouseleave since; every other mousemove leaves the session as
\* it is and renders nothing.
C12_MouseMoveOnlyWhileDragging ==
    [][(IsMouseMoveStep /\ ~button_held) =>
          /\ ~SessionChanges
          /\ (last' # last) => (last'.result = "ignored" /\ ~last'.rendered)]_vars

\* after an adjustment and the release of the button, a mousemove over a
\* session that holds an object and a window level has been ignored
C12_Witness ==
    /\ ~button_held
    /\ Adjustable
    /\ n_adjust = 1
    /\ last.event = "mousemove"
    /\ last.result = "ignored"

\* C13: an adjustment issued while no object is loaded, or while the session
\* has no window level, leaves the session's object, window level, LUT,
\* output buffer, canvases and message as they are and renders nothing.
C13_NothingToAdjust ==
    [][(IsMouseMoveStep /\ button_held /\ (~dicom_obj.some \/ ~window_level.some)) =>
          /\ ~SessionChanges
          /\ n_adjust' = n_adjust
          /\ (last' # last) => (last'.result = "ignored" /\ ~last'.rendered)]_vars

\* during a drag, an adjustment of an object that carries no window level
\* has been ignored
C13_Witness ==
    /\ button_held
    /\ is_dragging_mouse
    /\ dicom_obj.some
    /\ ~window_level.some
    /\ last.event = "mousemove"
    /\ last.result = "ignored"

=============================================================================
